---- MODULE Spec2Model ----
(***************************************************************************)
(* Model of src/BugsfreeMain/Italy.py: the playlist parser parse_m3u, the  *)
(* liveness probe check_link_active, fetch_source, and main: collection,   *)
(* deduplication, concurrent verification and exports.                     *)
(*                                                                         *)
(* Strings are sequences of tokens.  A token is a run of characters that   *)
(* the program never looks inside, except through the tables Prefixes,     *)
(* Lower and Contains below; whitespace, the comma and the double quote    *)
(* are tokens of their own, so that strip(), rfind(',') and the [^"]*      *)
(* of the regular expressions are computed as the code computes them.      *)
(* The Python value None and the result of a failed re.search are the      *)
(* empty tuple, a value v that is present is the one-element tuple <<v>>.  *)
(* A dict is a function from its keys to its values.                       *)
(***************************************************************************)
EXTENDS Integers, Sequences, FiniteSets, TLC

VARIABLES
    \* parse_m3u
    lines,            \* content.split('\n'), each line a token sequence
    source_url,       \* the source_url argument
    i,                \* index of the next line the for loop takes (1-based)
    channels,         \* the list being built
    current_channel,  \* the pending dict
    epg_url,          \* the guide URL seen so far (None or a value)
    ppc,              \* "idle", "loop" or "returned"
    calls,            \* the calls of parse_m3u that came before this one
    \* check_link_active
    url,              \* the url argument
    requests,         \* the requests issued so far, [method, url] each
    head_outcome,     \* how requests.head ended (None before it has)
    get_outcome,      \* how requests.get ended (None before it has)
    result,           \* the value returned (None before the return)
    cpc,              \* "idle", "head", "get", "returned" or "raised"
    \* main, up to the deduplication
    source_idx,       \* index of the next source the first loop takes
    all_channels,     \* the Records collected
    seen_urls,        \* the set of URLs seen by the second loop
    unique_channels,  \* the Records kept by the second loop
    dedup_idx,        \* index of the next Record the second loop takes
    fetch_log,        \* how the request of each source taken so far ended
    mpc,              \* "idle", "fetch", "dedup", "deduped", "submit", "collect",
                      \* "verified" or "done"
    \* main, the verification and the exports
    futures,          \* the futures in submission order: the url, the state
                      \* ("pending", "running", "returned", "raised"), the
                      \* result, the number of times the call was started
    num_threads,      \* the worker threads of the executor
    collected,        \* the futures as_completed has yielded, in that order
    active_channels,  \* the Records found active
    completed,        \* the counter of line 265
    errors,           \* the Records whose error line 276 has printed
    exported          \* the calls of the exporters: the exporter, its channels

pvars == <<lines, source_url, i, channels, current_channel, epg_url, ppc, calls>>

cvars == <<url, requests, head_outcome, get_outcome, result, cpc>>

mvars == <<source_idx, all_channels, seen_urls, unique_channels, dedup_idx, fetch_log,
           mpc>>

svars == <<source_idx, all_channels, seen_urls, unique_channels, dedup_idx, fetch_log>>

vvars == <<futures, num_threads, collected, active_channels, completed, errors, exported>>

vars == <<pvars, cvars, mvars, vvars>>

(***************************************************************************)
(* Bounds of the model.                                                    *)
(***************************************************************************)
MaxLines == 3

MaxStructLines == 5

MaxStatus == 600

MaxEntries == 2

MaxCalls == 3

\* The size of the worker pool; main asks for 50.
max_workers == 2

(***************************************************************************)
(* Strings.                                                                *)
(***************************************************************************)
Q == "\""

None == <<>>

Some(v) == <<v>>

EmptyDict == <<>>

Whitespace == {" ", "\t", "\r"}

SetMin(S) == CHOOSE x \in S : \A y \in S : x <= y

SetMax(S) == CHOOSE x \in S : \A y \in S : x >= y

\* str.strip(): drop the leading and the trailing whitespace.
Strip(s) ==
    LET solid == {k \in 1..Len(s) : s[k] \notin Whitespace}
    IN  IF solid = {} THEN <<>> ELSE SubSeq(s, SetMin(solid), SetMax(solid))

\* The prefixes of a token that the program tests with str.startswith.
Prefixes(tok) ==
    CASE tok = "#EXTM3U"     -> {"#", "#EXTM3U"}
      [] tok = "#EXTINF:"    -> {"#", "#EXTINF:"}
      [] tok = "#extinf:"    -> {"#"}
      [] tok = "#EXTVLCOPT:" -> {"#"}
      [] tok = "http://"     -> {"http://"}
      [] tok = "https://"    -> {"https://"}
      [] OTHER               -> {}

\* str.startswith(prefix)
StartsWith(line, prefix) == line # <<>> /\ prefix \in Prefixes(line[1])

\* Case folding of the attribute names (re.IGNORECASE).
Lower(tok) ==
    CASE tok = "TVG-NAME="    -> "tvg-name="
      [] tok = "Group-Title=" -> "group-title="
      [] tok = "URL-TVG="     -> "url-tvg="
      [] OTHER                -> tok

\* The attribute name key occurs in the token, ignoring case: at its end,
\* since every attribute token ends in '='.
Contains(tok, key) ==
    \/ Lower(tok) = key
    \/ key = "tvg-url=" /\ Lower(tok) = "x-tvg-url="

\* re.search(key + '"([^"]*)"', line, re.IGNORECASE): the leftmost match,
\* its group(1) running to the first closing quote; None without a match.
ReSearch(key, line) ==
    LET closing(p) == {q \in (p + 2)..Len(line) : line[q] = Q}
        starts == {p \in 1..Len(line) :
                      /\ Contains(line[p], key)
                      /\ p + 1 <= Len(line)
                      /\ line[p + 1] = Q
                      /\ closing(p) # {}}
    IN  IF starts = {} THEN None
        ELSE LET p == SetMin(starts)
             IN  Some(SubSeq(line, p + 2, SetMin(closing(p)) - 1))

\* str.rfind(','): the index of the last comma, -1 when there is none.
RFindComma(line) ==
    LET commas == {k \in 1..Len(line) : line[k] = ","}
    IN  IF commas = {} THEN -1 ELSE SetMax(commas)

\* dict.get(key) is falsy: the key is absent or its value is the empty string.
Falsy(d, key) == key \notin DOMAIN d \/ d[key] = <<>>

\* d[key] = v
Put(d, key, v) == [k \in DOMAIN d \cup {key} |-> IF k = key THEN v ELSE d[k]]

(***************************************************************************)
(* parse_m3u: the work of one iteration of the for loop.                   *)
(***************************************************************************)
UnknownChannel == <<"Unknown Channel">>

GeneralGroup == <<"General">>

\* The three guide-URL attributes of the #EXTM3U line, tried in order; the
\* guide URL seen so far is kept when none matches.
HeaderEpg(epg, line) ==
    LET m1 == ReSearch("url-tvg=", line)
        m2 == IF m1 = None THEN ReSearch("x-tvg-url=", line) ELSE m1
        m3 == IF m2 = None THEN ReSearch("tvg-url=", line) ELSE m2
    IN  IF m3 # None THEN Some(m3[1]) ELSE epg

\* Mutant of NewChannel: the pending dict is not re-initialized.
NewChannelKept(cur) == cur

\* current_channel = {} at the head of the #EXTINF: branch.
NewChannel(cur) == EmptyDict

\* An attribute that is stored only when it is on the line.
OptionalAttr(cc, key, attr, line) ==
    LET m == ReSearch(attr, line)
    IN  IF m # None THEN Put(cc, key, m[1]) ELSE cc

\* Mutant of DefaultedAttr: no default is stored.
DefaultedAttrOmitted(cc, key, attr, line, default) ==
    LET m == ReSearch(attr, line)
    IN  IF m # None THEN Put(cc, key, m[1]) ELSE cc

\* An attribute that is stored with a default when it is not on the line.
DefaultedAttr(cc, key, attr, line, default) ==
    LET m == ReSearch(attr, line)
    IN  IF m # None THEN Put(cc, key, m[1]) ELSE Put(cc, key, default)

\* Mutant of ResolveName: the text after the comma replaces the attribute.
ResolveNameTextFirst(cc, line) ==
    LET comma_index == RFindComma(line)
        display_name == Strip(SubSeq(line, comma_index + 1, Len(line)))
    IN  IF comma_index # -1 /\ display_name # <<>>
        THEN Put(cc, "name", display_name)
        ELSE IF Falsy(cc, "name")
             THEN Put(cc, "name", UnknownChannel)
             ELSE cc

\* Mutant of ResolveName: a name is kept because its key is there, empty or not.
ResolveNameKeyPresent(cc, line) ==
    LET comma_index == RFindComma(line)
        display_name == Strip(SubSeq(line, comma_index + 1, Len(line)))
    IN  IF "name" \in DOMAIN cc THEN cc
        ELSE IF comma_index # -1 /\ display_name # <<>>
        THEN Put(cc, "name", display_name)
        ELSE Put(cc, "name", UnknownChannel)

\* The display name after the last comma, and the fallback name.
ResolveName(cc, line) ==
    LET comma_index == RFindComma(line)
        display_name == Strip(SubSeq(line, comma_index + 1, Len(line)))
    IN  IF comma_index # -1
        THEN IF display_name # <<>> /\ Falsy(cc, "name")
             THEN Put(cc, "name", display_name)
             ELSE IF Falsy(cc, "name")
                  THEN Put(cc, "name", UnknownChannel)
                  ELSE cc
        ELSE IF Falsy(cc, "name")
             THEN Put(cc, "name", UnknownChannel)
             ELSE cc

\* The #EXTINF: branch: the pending dict after the line.
ExtInfChannel(cur, line) ==
    LET c0 == NewChannel(cur)
        c1 == OptionalAttr(c0, "tvg_id", "tvg-id=", line)
        c2 == OptionalAttr(c1, "name", "tvg-name=", line)
        c3 == DefaultedAttr(c2, "logo", "tvg-logo=", line, <<>>)
        c4 == DefaultedAttr(c3, "group", "group-title=", line, GeneralGroup)
    IN  ResolveName(c4, line)

\* Mutant of IsStreamUrl: the pending dict is not required.
IsStreamUrlUnpaired(cur, line) ==
    /\ line # <<>>
    /\ (StartsWith(line, "http://") \/ StartsWith(line, "https://"))

\* The condition under which a line completes the pending dict.
IsStreamUrl(cur, line) ==
    /\ line # <<>>
    /\ cur # EmptyDict
    /\ (StartsWith(line, "http://") \/ StartsWith(line, "https://"))

\* The dict that is appended to channels.
CompleteChannel(cur, line, src, epg) ==
    Put(Put(Put(cur, "url", line), "source", src), "epg_url", epg)

\* Mutant of ClearedChannel: the pending dict survives the append.
ClearedChannelKept(cur) == cur

\* current_channel = {} after the append.
ClearedChannel(cur) == EmptyDict

\* Mutant of ParseStep: another directive line drops the pending dict.
ParseStepDirectiveClears(st, raw, src) ==
    LET line == Strip(raw)
    IN  IF StartsWith(line, "#EXTM3U")
        THEN [st EXCEPT !.epg_url = HeaderEpg(st.epg_url, line)]
        ELSE IF StartsWith(line, "#EXTINF:")
        THEN [st EXCEPT !.current_channel = ExtInfChannel(st.current_channel, line)]
        ELSE IF StartsWith(line, "#")
        THEN [st EXCEPT !.current_channel = EmptyDict]
        ELSE IF IsStreamUrl(st.current_channel, line)
        THEN [channels |-> Append(st.channels,
                                  CompleteChannel(st.current_channel, line, src,
                                                  st.epg_url)),
              current_channel |-> ClearedChannel(st.current_channel),
              epg_url |-> st.epg_url]
        ELSE st

\* One iteration of the loop on the raw line, on the loop's three locals.
ParseStep(st, raw, src) ==
    LET line == Strip(raw)
    IN  IF StartsWith(line, "#EXTM3U")
        THEN [st EXCEPT !.epg_url = HeaderEpg(st.epg_url, line)]
        ELSE IF StartsWith(line, "#EXTINF:")
        THEN [st EXCEPT !.current_channel = ExtInfChannel(st.current_channel, line)]
        ELSE IF StartsWith(line, "#")
        THEN st
        ELSE IF IsStreamUrl(st.current_channel, line)
        THEN [channels |-> Append(st.channels,
                                  CompleteChannel(st.current_channel, line, src,
                                                  st.epg_url)),
              current_channel |-> ClearedChannel(st.current_channel),
              epg_url |-> st.epg_url]
        ELSE st

\* The locals of parse_m3u before the loop.
ParseStart == [channels |-> <<>>, current_channel |-> EmptyDict, epg_url |-> None]

RECURSIVE ParseFrom(_, _, _, _)
ParseFrom(st, ls, k, src) ==
    IF k > Len(ls) THEN st.channels
    ELSE ParseFrom(ParseStep(st, ls[k], src), ls, k + 1, src)

\* parse_m3u(content, source_url) as a function of its arguments.
ParseM3U(ls, src) == ParseFrom(ParseStart, ls, 1, src)

(***************************************************************************)
(* The documents the parser is run on.                                     *)
(***************************************************************************)
HdrUrlTvg == <<"#EXTM3U", " ", "URL-TVG=", Q, "g1", Q>>

HdrXTvgUrl == <<"#EXTM3U", " ", "x-tvg-url=", Q, "g2", Q>>

InfFull ==
    <<"#EXTINF:", "-1", " ", "tvg-id=", Q, "id1", Q, " ", "tvg-logo=", Q, "lg", Q,
      " ", "group-title=", Q, "News", Q, " ", "tvg-name=", Q, "Foo", Q, ",", "Full">>

InfName == <<"#EXTINF:", "-1", " ", "tvg-name=", Q, "Foo", Q, ",", "Bar Baz">>

InfGroup == <<"#EXTINF:", "-1", " ", "Group-Title=", Q, "News", Q, ",", " ", "Bar Baz">>

InfBare == <<"#EXTINF:", "-1">>

InfEmptyName == <<"#EXTINF:", "-1", " ", "TVG-NAME=", Q, Q, ",", "Bar Baz">>

InfBlankText == <<"#EXTINF:", "-1", " ", "tvg-id=", Q, "id2", Q, ",", " ">>

InfCommaInAttr == <<"#EXTINF:", "-1", " ", "group-title=", Q, "a", ",", "b", Q>>

OtherDirective == <<"#EXTVLCOPT:", "x">>

LowerInf == <<"#extinf:", "-1", ",", "low">>

BlankLine == <<" ", "\r">>

UrlA == <<"http://", "a">>

UrlB == <<" ", "https://", "b", "\r">>

Junk == <<"ftp://", "c">>

\* The lines of the short documents: every shape of line the parser tells apart.
LinePool ==
    {HdrUrlTvg, InfName, InfGroup, InfBare, InfBlankText, InfCommaInAttr,
     OtherDirective, LowerInf, BlankLine, UrlB, Junk}

\* The lines of the long documents.
StructPool == {HdrXTvgUrl, InfFull, InfEmptyName, UrlA, UrlB}

SeqsUpTo(S, n) == UNION {[1..k -> S] : k \in 0..n}

Documents == SeqsUpTo(LinePool, MaxLines) \cup SeqsUpTo(StructPool, MaxStructLines)

\* The shapes of an #EXTINF: line that decide the name: tvg-name absent, empty
\* or not, and the text after the comma absent, empty, blank or not.
NameParts ==
    {<<>>, <<" ", "tvg-name=", Q, Q>>, <<" ", "tvg-name=", Q, "Foo", Q>>}

TextParts == {<<>>, <<",">>, <<",", " ", "\t">>, <<",", "Bar Baz">>}

ShapeDocuments ==
    {<< <<"#EXTINF:", "-1">> \o nm \o tx, UrlA >> : nm \in NameParts, tx \in TextParts}

SourceUrl == <<"https://", "src1">>

(***************************************************************************)
(* parse_m3u as a process: one step per line, then the return.             *)
(***************************************************************************)
ParseIdle ==
    /\ lines = <<>>
    /\ source_url = <<>>
    /\ i = 1
    /\ channels = <<>>
    /\ current_channel = EmptyDict
    /\ epg_url = None
    /\ ppc = "idle"
    /\ calls = <<>>

ProbeIdle ==
    /\ url = <<>>
    /\ requests = <<>>
    /\ head_outcome = None
    /\ get_outcome = None
    /\ result = None
    /\ cpc = "idle"

MainIdle ==
    /\ source_idx = 1
    /\ all_channels = <<>>
    /\ seen_urls = {}
    /\ unique_channels = <<>>
    /\ dedup_idx = 1
    /\ fetch_log = <<>>
    /\ mpc = "idle"
    /\ futures = <<>>
    /\ num_threads = 0
    /\ collected = <<>>
    /\ active_channels = <<>>
    /\ completed = 0
    /\ errors = <<>>
    /\ exported = <<>>

ParseInit ==
    /\ ProbeIdle
    /\ MainIdle
    /\ lines \in Documents \cup ShapeDocuments
    /\ source_url = SourceUrl
    /\ i = 1
    /\ channels = ParseStart.channels
    /\ current_channel = ParseStart.current_channel
    /\ epg_url = ParseStart.epg_url
    /\ ppc = "loop"
    /\ calls = <<>>

ParseLine ==
    /\ ppc = "loop"
    /\ i <= Len(lines)
    /\ LET st == ParseStep([channels |-> channels,
                            current_channel |-> current_channel,
                            epg_url |-> epg_url], lines[i], source_url)
       IN  /\ channels' = st.channels
           /\ current_channel' = st.current_channel
           /\ epg_url' = st.epg_url
    /\ i' = i + 1
    /\ UNCHANGED <<lines, source_url, ppc, calls, cvars, mvars, vvars>>

ParseReturn ==
    /\ ppc = "loop"
    /\ i > Len(lines)
    /\ ppc' = "returned"
    /\ UNCHANGED <<lines, source_url, i, channels, current_channel, epg_url, calls,
                   cvars, mvars, vvars>>

ParseNext == ParseLine \/ ParseReturn

SpecParse == ParseInit /\ [][ParseNext]_vars

(***************************************************************************)
(* parse_m3u called again and again by one caller: each call starts from   *)
(* lines 30-33, and calls keeps what the earlier calls were given and      *)
(* what they returned.                                                     *)
(***************************************************************************)
OtherSourceUrl == <<"https://", "src2">>

CallDocuments ==
    {<<>>, <<InfName>>, <<UrlA, InfName>>, <<InfName, UrlA, HdrUrlTvg>>,
     <<HdrXTvgUrl, InfBare, UrlB>>}

CallsInit ==
    /\ ProbeIdle
    /\ MainIdle
    /\ lines \in CallDocuments
    /\ source_url \in {SourceUrl, OtherSourceUrl}
    /\ i = 1
    /\ channels = ParseStart.channels
    /\ current_channel = ParseStart.current_channel
    /\ epg_url = ParseStart.epg_url
    /\ ppc = "loop"
    /\ calls = <<>>

\* Mutant of CallAgain: the pending dict and the guide URL of the call that
\* returned are those the next call starts with.
CallAgainKeepsLocals ==
    /\ ppc = "returned"
    /\ Len(calls) + 1 < MaxCalls
    /\ calls' = Append(calls, [content |-> lines, source |-> source_url,
                               out |-> channels])
    /\ lines' \in CallDocuments
    /\ source_url' \in {SourceUrl, OtherSourceUrl}
    /\ i' = 1
    /\ channels' = ParseStart.channels
    /\ ppc' = "loop"
    /\ UNCHANGED <<current_channel, epg_url, cvars, mvars, vvars>>

\* The caller takes the list returned and calls parse_m3u once more.
CallAgain ==
    /\ ppc = "returned"
    /\ Len(calls) + 1 < MaxCalls
    /\ calls' = Append(calls, [content |-> lines, source |-> source_url,
                               out |-> channels])
    /\ lines' \in CallDocuments
    /\ source_url' \in {SourceUrl, OtherSourceUrl}
    /\ i' = 1
    /\ channels' = ParseStart.channels
    /\ current_channel' = ParseStart.current_channel
    /\ epg_url' = ParseStart.epg_url
    /\ ppc' = "loop"
    /\ UNCHANGED <<cvars, mvars, vvars>>

CallsNext == ParseLine \/ ParseReturn \/ CallAgain

SpecCalls == CallsInit /\ [][CallsNext]_vars

(***************************************************************************)
(* Properties of parse_m3u.  They are stated on the document: Kind is the  *)
(* kind of a line, Done the lines the loop has taken, Origins the pairs of *)
(* an #EXTINF: line and a URL line among them.                             *)
(***************************************************************************)
Kind(raw) ==
    LET line == Strip(raw)
    IN  IF StartsWith(line, "#EXTM3U") THEN "header"
        ELSE IF StartsWith(line, "#EXTINF:") THEN "extinf"
        ELSE IF StartsWith(line, "#") THEN "directive"
        ELSE IF StartsWith(line, "http://") \/ StartsWith(line, "https://") THEN "url"
        ELSE "other"

KindsOf(ls) == [k \in 1..Len(ls) |-> Kind(ls[k])]

Done == 1..(i - 1)

\* The URL line k has an #EXTINF: line before it with no #EXTINF: line and no
\* URL line in between (K gives the kinds of the lines).
Paired(K, k) ==
    /\ K[k] = "url"
    /\ \E j \in 1..(k - 1) :
          /\ K[j] = "extinf"
          /\ \A m \in (j + 1)..(k - 1) : K[m] \notin {"extinf", "url"}

\* The paired URL lines taken so far in document order, each with the last
\* #EXTINF: line before it, both stripped.
Origins ==
    LET K == KindsOf(lines)
        P == {k \in Done : Paired(K, k)}
        nth(n) == CHOOSE k \in P : Cardinality({m \in P : m <= k}) = n
        dir(k) == SetMax({j \in 1..(k - 1) : K[j] = "extinf"})
    IN  [n \in 1..Cardinality(P) |->
            [url |-> Strip(lines[nth(n)]), inf |-> Strip(lines[dir(nth(n))])]]

\* The trimmed text after the final comma; empty without a comma.
TrailingText(line) ==
    IF RFindComma(line) = -1 THEN <<>>
    ELSE Strip(SubSeq(line, RFindComma(line) + 1, Len(line)))

\* C2: at every point of the loop the output holds exactly one Record per
\* URL line taken so far that is paired with an #EXTINF: line, and the
\* Records carry those URLs in document order.
C2_OneRecordPerPair ==
    LET O == Origins
    IN  /\ Len(channels) = Len(O)
        /\ \A n \in 1..Len(channels) :
              /\ n \in DOMAIN O
              /\ "url" \in DOMAIN channels[n]
              /\ channels[n]["url"] = O[n].url

\* C2 witness: a finished parse of a document with two paired URL lines and
\* a URL line that is not paired.
C2_Witness ==
    /\ ppc = "returned"
    /\ Len(channels) = 2
    /\ \E k \in Done : Kind(lines[k]) = "url" /\ ~Paired(KindsOf(lines), k)

\* The name as the claim C3 states it: tvg-name whenever it is present.
NameIfPresent(line) ==
    IF ReSearch("tvg-name=", line) # None THEN ReSearch("tvg-name=", line)[1]
    ELSE IF TrailingText(line) # <<>> THEN TrailingText(line)
    ELSE UnknownChannel

\* The name as amended: tvg-name when it is present and not empty.
NameIfNonEmpty(line) ==
    IF ReSearch("tvg-name=", line) \notin {None, Some(<<>>)}
    THEN ReSearch("tvg-name=", line)[1]
    ELSE IF TrailingText(line) # <<>> THEN TrailingText(line)
    ELSE UnknownChannel

\* C3 as stated: the name of every Record is the value of tvg-name if the
\* attribute is present on its #EXTINF: line, else the trimmed text after
\* the final comma if it is not empty, else "Unknown Channel".
C3_NameAttributeIfPresent ==
    LET O == Origins
    IN  \A n \in 1..Len(channels) :
            n \in DOMAIN O /\ channels[n]["name"] = NameIfPresent(O[n].inf)

\* C3 amended: the name of every Record is the value of tvg-name if the
\* attribute is present with a non-empty value, else the trimmed text after
\* the final comma if it is not empty, else "Unknown Channel".
C3_NamePrecedence ==
    LET O == Origins
    IN  \A n \in 1..Len(channels) :
            n \in DOMAIN O /\ channels[n]["name"] = NameIfNonEmpty(O[n].inf)

\* C3 witness: a finished parse with a Record whose name is tvg-name's value
\* although the line has other trailing text, and one with an empty tvg-name
\* whose name is the trailing text.
C3_Witness ==
    LET O == Origins
    IN  /\ ppc = "returned"
        /\ Len(channels) = Len(O)
        /\ \E n \in 1..Len(channels) :
              /\ ReSearch("tvg-name=", O[n].inf) = Some(channels[n]["name"])
              /\ TrailingText(O[n].inf) \notin {<<>>, channels[n]["name"]}
        /\ \E n \in 1..Len(channels) :
              /\ ReSearch("tvg-name=", O[n].inf) = Some(<<>>)
              /\ channels[n]["name"] = TrailingText(O[n].inf)

\* C4: a step on a URL line, taken when no #EXTINF: line has been seen since
\* the start of the document, leaves the output and the parser's locals as
\* they are.
C4_OrphanUrlIgnored ==
    [][(/\ ppc = "loop"
        /\ i <= Len(lines)
        /\ Kind(lines[i]) = "url"
        /\ \A j \in Done : Kind(lines[j]) # "extinf")
       => (/\ channels' = channels
           /\ current_channel' = current_channel
           /\ epg_url' = epg_url)]_vars

\* C4 witness: the loop has taken a URL line with no #EXTINF: line before it.
C4_Witness ==
    /\ i > 1
    /\ Kind(lines[i - 1]) = "url"
    /\ \A j \in Done : Kind(lines[j]) # "extinf"
    /\ channels = <<>>

\* The #EXTINF: lines taken so far that a URL line completes: the next
\* #EXTINF: or URL line after them is a URL line.
CompletedDirectives ==
    LET K == KindsOf(lines)
    IN  {j \in Done :
            /\ K[j] = "extinf"
            /\ \E k \in Done :
                  /\ k > j
                  /\ K[k] = "url"
                  /\ \A m \in (j + 1)..(k - 1) : K[m] \notin {"extinf", "url"}}

\* C5: the Records are as many as the #EXTINF: lines that a URL line
\* completes, so an #EXTINF: line followed by another one yields none; and
\* the id, name, logo and group of every Record are those of the last
\* #EXTINF: line before its URL alone, whatever the lines before it held.
C5_PendingReinitialized ==
    LET O == Origins
    IN  /\ Len(channels) = Cardinality(CompletedDirectives)
        /\ \A n \in 1..Len(channels) :
              /\ n \in DOMAIN O
              /\ LET fresh == ExtInfChannel(EmptyDict, O[n].inf)
                     attrs == DOMAIN channels[n] \ {"url", "source", "epg_url"}
                 IN  /\ attrs = DOMAIN fresh
                     /\ \A a \in attrs : channels[n][a] = fresh[a]
                     /\ "tvg_id" \in attrs <=> ReSearch("tvg-id=", O[n].inf) # None

\* C5 witness: an #EXTINF: line with a tvg-id, then one without, then a URL:
\* one Record, without a tvg_id.
C5_Witness ==
    /\ ppc = "returned"
    /\ Len(lines) = 3
    /\ Kind(lines[1]) = "extinf" /\ Kind(lines[2]) = "extinf" /\ Kind(lines[3]) = "url"
    /\ ReSearch("tvg-id=", Strip(lines[1])) # None
    /\ ReSearch("tvg-id=", Strip(lines[2])) = None
    /\ Len(channels) = 1
    /\ "tvg_id" \notin DOMAIN channels[1]

\* C6 as stated: any two Records parsed from one document carry the same
\* epg_url.
C6_SameEpgUrl ==
    \A m, n \in 1..Len(channels) : channels[m]["epg_url"] = channels[n]["epg_url"]

\* C7: every Record has a url that is not empty, a logo and a group; the logo
\* is the empty string and the group "General" when the #EXTINF: line has
\* no such attribute.
C7_RequiredFields ==
    LET O == Origins
    IN  \A n \in 1..Len(channels) :
            /\ n \in DOMAIN O
            /\ {"url", "logo", "group"} \subseteq DOMAIN channels[n]
            /\ channels[n]["url"] # <<>>
            /\ ReSearch("tvg-logo=", O[n].inf) = None => channels[n]["logo"] = <<>>
            /\ ReSearch("group-title=", O[n].inf) = None
                  => channels[n]["group"] = GeneralGroup

\* C7 witness: a finished parse with a Record whose logo and group are the
\* defaults and a Record whose logo and group come from the line.
C7_Witness ==
    LET O == Origins
    IN  /\ ppc = "returned"
        /\ Len(channels) = Len(O)
        /\ \E n \in 1..Len(channels) :
              /\ ReSearch("tvg-logo=", O[n].inf) = None
              /\ ReSearch("group-title=", O[n].inf) = None
              /\ channels[n]["logo"] = <<>>
              /\ channels[n]["group"] = GeneralGroup
        /\ \E n \in 1..Len(channels) :
              /\ ReSearch("tvg-logo=", O[n].inf) # None
              /\ channels[n]["logo"] # <<>>

InertKinds == {"header", "directive", "other"}

\* C18: a step on a line that is neither an #EXTINF: line nor a URL line
\* leaves the output and the pending dict as they are; and a step on a URL
\* line that follows an #EXTINF: line with only such lines in between appends
\* one Record with the id, name, logo and group of that #EXTINF: line.
C18_InertLinesKeepPending ==
    [][(ppc = "loop" /\ i <= Len(lines)) =>
         /\ Kind(lines[i]) \in InertKinds =>
               channels' = channels /\ current_channel' = current_channel
         /\ \A j \in Done :
               (/\ Kind(lines[j]) = "extinf"
                /\ Kind(lines[i]) = "url"
                /\ \A m \in (j + 1)..(i - 1) : Kind(lines[m]) \in InertKinds)
               => /\ Len(channels') = Len(channels) + 1
                  /\ SubSeq(channels', 1, Len(channels)) = channels
                  /\ LET r == channels'[Len(channels')]
                         fresh == ExtInfChannel(EmptyDict, Strip(lines[j]))
                     IN  /\ DOMAIN fresh \subseteq DOMAIN r
                         /\ \A a \in DOMAIN fresh : r[a] = fresh[a]
                         /\ "tvg_id" \in DOMAIN r => "tvg_id" \in DOMAIN fresh]_vars

\* C18 witness: a finished parse of an #EXTINF: line with a tvg-id, then two
\* or more lines of the other kinds, one of them a directive, then a URL
\* line: the Record carries the tvg-id.
C18_Witness ==
    /\ ppc = "returned"
    /\ Len(lines) >= 4
    /\ Kind(lines[1]) = "extinf"
    /\ Kind(lines[Len(lines)]) = "url"
    /\ \A m \in 2..(Len(lines) - 1) : Kind(lines[m]) \in InertKinds
    /\ Len(channels) = 1
    /\ "tvg_id" \in DOMAIN channels[1]

\* C18 witness of the short documents: an #EXTINF: line, another directive
\* line, a URL line.
C18_DirectiveBetween ==
    /\ ppc = "returned"
    /\ Len(lines) = 3
    /\ Kind(lines[1]) = "extinf" /\ Kind(lines[2]) = "directive" /\ Kind(lines[3]) = "url"
    /\ Len(channels) = 1

\* C20: every Record has a name that is not empty; it is "Unknown Channel"
\* when tvg-name is absent or empty and the text after the final comma is
\* absent, empty or blank.
C20_NameNeverEmpty ==
    LET O == Origins
    IN  \A n \in 1..Len(channels) :
            /\ n \in DOMAIN O
            /\ "name" \in DOMAIN channels[n]
            /\ channels[n]["name"] # <<>>
            /\ (/\ ReSearch("tvg-name=", O[n].inf) \in {None, Some(<<>>)}
                /\ TrailingText(O[n].inf) = <<>>)
               => channels[n]["name"] = UnknownChannel

\* C20 witness: a Record from a line with tvg-name="" and blank text after
\* the comma: its name is "Unknown Channel".
C20_Witness ==
    LET O == Origins
    IN  /\ ppc = "returned"
        /\ Len(channels) = 1
        /\ Len(O) = 1
        /\ ReSearch("tvg-name=", O[1].inf) = Some(<<>>)
        /\ RFindComma(lines[1]) # -1
        /\ Len(lines[1]) > RFindComma(lines[1])
        /\ TrailingText(O[1].inf) = <<>>
        /\ channels[1]["name"] = UnknownChannel

\* The calls that have returned, the one in hand included.
Returned ==
    IF ppc = "returned"
    THEN Append(calls, [content |-> lines, source |-> source_url, out |-> channels])
    ELSE calls

\* C15: two calls of parse_m3u with the same content and source_url return
\* equal lists, whatever calls came before or between them; a call in any
\* position returns what the function returns on its arguments alone.
C15_SameInputSameOutput ==
    LET R == Returned
    IN  /\ \A a, b \in 1..Len(R) :
              (R[a].content = R[b].content /\ R[a].source = R[b].source)
              => R[a].out = R[b].out
        /\ \A a \in 1..Len(R) : R[a].out = ParseM3U(R[a].content, R[a].source)

\* C15 witness: a document that begins with a URL line is parsed, then a
\* document that ends with an #EXTINF: line and closes no Record, then the
\* first document again with the same source_url.
C15_Witness ==
    /\ ppc = "returned"
    /\ Len(calls) = 2
    /\ calls[1].content = lines /\ calls[1].source = source_url
    /\ Len(lines) > 0 /\ Kind(lines[1]) = "url"
    /\ calls[2].content # lines
    /\ Len(calls[2].content) > 0
    /\ Kind(calls[2].content[Len(calls[2].content)]) = "extinf"
    /\ channels = calls[1].out

(***************************************************************************)
(* check_link_active.  A request ends with a response, which has a status  *)
(* code, or with an exception, which has a class.                          *)
(***************************************************************************)
RangeStart == 200

RangeStop == 400

Statuses == 0..MaxStatus

\* requests.exceptions.Timeout and its subclasses.
TimeoutClasses == {"Timeout", "ConnectTimeout", "ReadTimeout"}

\* requests.exceptions.RequestException and its subclasses.
RequestExceptionClasses ==
    TimeoutClasses \cup {"RequestException", "ConnectionError", "TooManyRedirects"}

\* The exceptions a request can end with; the last is no RequestException.
ExceptionClasses == RequestExceptionClasses \cup {"UnicodeError"}

Outcomes ==
    [kind : {"response"}, status : Statuses]
        \cup [kind : {"exception"}, class : ExceptionClasses]

\* response.status_code in range(200, 400), after requests.head
HeadActive(status) == RangeStart <= status /\ status < RangeStop

\* Mutant of GetActive: the upper end of the range is included.
GetActiveInclusive(status) == RangeStart <= status /\ status <= RangeStop

\* response.status_code in range(200, 400), after requests.get
GetActive(status) == RangeStart <= status /\ status < RangeStop

\* Mutant of IsTimeout: no except clause for Timeout.
IsTimeoutNever(class) == FALSE

\* except requests.exceptions.Timeout
IsTimeout(class) == class \in TimeoutClasses

\* except requests.exceptions.RequestException
IsRequestException(class) == class \in RequestExceptionClasses

\* Mutant of AfterHead: a response that is not in the range, such as 405, is
\* retried with GET.
AfterHeadRetryStatus(o) ==
    IF o.kind = "response"
    THEN IF HeadActive(o.status)
         THEN [pc |-> "returned", result |-> Some(TRUE)]
         ELSE [pc |-> "get", result |-> None]
    ELSE IF IsTimeout(o.class) THEN [pc |-> "returned", result |-> Some(FALSE)]
    ELSE IF IsRequestException(o.class) THEN [pc |-> "get", result |-> None]
    ELSE [pc |-> "raised", result |-> None]

\* The outer try statement on the outcome o of requests.head: where control
\* goes and what is returned.
AfterHead(o) ==
    IF o.kind = "response"
    THEN [pc |-> "returned", result |-> Some(HeadActive(o.status))]
    ELSE IF IsTimeout(o.class) THEN [pc |-> "returned", result |-> Some(FALSE)]
    ELSE IF IsRequestException(o.class) THEN [pc |-> "get", result |-> None]
    ELSE [pc |-> "raised", result |-> None]

\* Mutant of AfterGet: an exception of the GET leaves check_link_active.
AfterGetRaises(o) ==
    IF o.kind = "response"
    THEN [pc |-> "returned", result |-> Some(GetActive(o.status))]
    ELSE [pc |-> "raised", result |-> None]

\* The inner try statement on the outcome o of requests.get.
AfterGet(o) ==
    IF o.kind = "response"
    THEN [pc |-> "returned", result |-> Some(GetActive(o.status))]
    ELSE [pc |-> "returned", result |-> Some(FALSE)]

ProbeUrls == {Strip(UrlA), Strip(UrlB)}

ProbeInit ==
    /\ ParseIdle
    /\ MainIdle
    /\ url \in ProbeUrls
    /\ requests = <<>>
    /\ head_outcome = None
    /\ get_outcome = None
    /\ result = None
    /\ cpc = "head"

HeadProbe ==
    /\ cpc = "head"
    /\ \E o \in Outcomes :
          /\ requests' = Append(requests, [method |-> "HEAD", url |-> url])
          /\ head_outcome' = Some(o)
          /\ cpc' = AfterHead(o).pc
          /\ result' = AfterHead(o).result
    /\ UNCHANGED <<url, get_outcome, pvars, mvars, vvars>>

GetProbe ==
    /\ cpc = "get"
    /\ \E o \in Outcomes :
          /\ requests' = Append(requests, [method |-> "GET", url |-> url])
          /\ get_outcome' = Some(o)
          /\ cpc' = AfterGet(o).pc
          /\ result' = AfterGet(o).result
    /\ UNCHANGED <<url, head_outcome, pvars, mvars, vvars>>

ProbeNext == HeadProbe \/ GetProbe

SpecProbe == ProbeInit /\ [][ProbeNext]_vars

(***************************************************************************)
(* Properties of check_link_active.                                        *)
(***************************************************************************)
Issued(method) == Cardinality({k \in 1..Len(requests) : requests[k].method = method})

IsResponse(outcome) == outcome # None /\ outcome[1].kind = "response"

IsException(outcome, classes) ==
    outcome # None /\ outcome[1].kind = "exception" /\ outcome[1].class \in classes

\* C8: when the HEAD probe or the GET probe completes with a response, the
\* value returned is TRUE if and only if 200 <= status_code < 400.
C8_StatusRange ==
    /\ IsResponse(head_outcome) =>
          /\ cpc = "returned"
          /\ result = Some(200 <= head_outcome[1].status /\ head_outcome[1].status < 400)
    /\ IsResponse(get_outcome) =>
          /\ cpc = "returned"
          /\ result = Some(200 <= get_outcome[1].status /\ get_outcome[1].status < 400)

\* C8 witness: the GET probe has completed with status 400 and the link is
\* judged inactive.
C8_Witness ==
    /\ cpc = "returned"
    /\ IsResponse(get_outcome)
    /\ get_outcome[1].status = 400
    /\ result = Some(FALSE)

\* C9: once the HEAD probe has timed out, check_link_active has returned
\* False and the only request issued is the HEAD request.
C9_TimeoutNoFallback ==
    IsException(head_outcome, {"Timeout", "ConnectTimeout", "ReadTimeout"}) =>
        /\ cpc = "returned"
        /\ result = Some(FALSE)
        /\ requests = <<[method |-> "HEAD", url |-> url]>>
        /\ get_outcome = None

\* C9 witness: the HEAD probe has timed out.
C9_Witness ==
    /\ IsException(head_outcome, {"ConnectTimeout"})
    /\ cpc = "returned"
    /\ Issued("GET") = 0

\* C10: at most one GET is ever issued; when check_link_active has ended,
\* one GET has been issued if the HEAD probe failed with a RequestException
\* that is no timeout, and none otherwise (a response of any status, a
\* timeout, another exception); and a response to the GET decides the result
\* by the status range.
C10_FallbackExactlyOnce ==
    /\ Issued("GET") <= 1
    /\ Issued("HEAD") <= 1
    /\ cpc \in {"returned", "raised"} =>
          Issued("GET") =
              IF IsException(head_outcome,
                             {"RequestException", "ConnectionError", "TooManyRedirects"})
              THEN 1 ELSE 0
    /\ Issued("GET") = 1 /\ IsResponse(get_outcome) =>
          result = Some(get_outcome[1].status \in 200..399)

\* C10 witness: the HEAD probe failed with a ConnectionError, one GET was
\* issued and its response 200 made the link active.
C10_Witness ==
    /\ cpc = "returned"
    /\ IsException(head_outcome, {"ConnectionError"})
    /\ Issued("GET") = 1
    /\ IsResponse(get_outcome)
    /\ get_outcome[1].status = 200
    /\ result = Some(TRUE)

\* C17: once the GET probe has failed with any exception, a timeout
\* included, check_link_active has returned False; and never more than two
\* requests are issued, one HEAD first and at most one GET after it.
C17_FallbackFailureInactive ==
    /\ IsException(get_outcome, ExceptionClasses) =>
          /\ cpc = "returned"
          /\ result = Some(FALSE)
          /\ Len(requests) = 2
    /\ Len(requests) <= 2
    /\ \A k \in 1..Len(requests) :
          requests[k] = [method |-> IF k = 1 THEN "HEAD" ELSE "GET", url |-> url]
    /\ cpc \in {"returned", "raised"} => ~ENABLED ProbeNext

\* C17 witness: the HEAD probe failed with a ConnectionError, the GET probe
\* timed out, and the link is judged inactive after two requests.
C17_Witness ==
    /\ IsException(head_outcome, {"ConnectionError"})
    /\ IsException(get_outcome, {"ReadTimeout"})
    /\ cpc = "returned"
    /\ result = Some(FALSE)
    /\ Len(requests) = 2

(***************************************************************************)
(* main, up to the deduplication: the loop over the sources, then the loop *)
(* over the Records collected.                                             *)
(***************************************************************************)
source_urls ==
    << <<"https://", "raw.githubusercontent.com/Free-IPTV/Countries/master/Italy/italy.m3u">>,
       <<"https://", "iptv-org.github.io/iptv/languages/ita.m3u">>,
       <<"https://", "raw.githubusercontent.com/freearhey/iptv/master/playlists/it.m3u">> >>

UrlASlash == <<"http://", "a", "/">>

\* The (#EXTINF: line, URL line) blocks of the documents the sources serve.
Entries ==
    {<<InfName, UrlA>>, <<InfBare, UrlA>>, <<InfGroup, UrlASlash>>}

RECURSIVE Flatten(_)
Flatten(blocks) ==
    IF blocks = <<>> THEN <<>> ELSE Head(blocks) \o Flatten(Tail(blocks))

\* The documents the sources serve: a header line and up to MaxEntries blocks.
SourceDocuments == {<<HdrUrlTvg>> \o Flatten(b) : b \in SeqsUpTo(Entries, MaxEntries)}

\* The body of an error page; it reads as a playlist of one Record.
ErrorBody == <<InfBare, UrlB>>

\* How requests.get of fetch_source ends: a response with a status and a
\* text, or an exception.
FetchOutcomes ==
    {[kind |-> "response", status |-> 200, text |-> doc] : doc \in SourceDocuments}
        \cup {[kind |-> "response", status |-> 404, text |-> ErrorBody],
              [kind |-> "exception", class |-> "ConnectionError"]}

\* response.raise_for_status() raises HTTPError.
RaisesForStatus(status) == status >= 400 /\ status < 600

\* Mutant of FetchResult: the body of an error response is parsed too.
FetchResultAnyStatus(src, o) ==
    IF o.kind = "exception" THEN <<>> ELSE ParseM3U(o.text, src)

\* What fetch_source(url) returns when its request ends as o.
FetchResult(src, o) ==
    IF o.kind = "exception" THEN <<>>
    ELSE IF RaisesForStatus(o.status) THEN <<>>
    ELSE ParseM3U(o.text, src)

\* fetch_source(url): the Records of the document served, or [] when the
\* request or raise_for_status raises.
FetchSource(src) == {FetchResult(src, o) : o \in FetchOutcomes}

\* Mutant of DedupStep: the whole Record is the key, not its url.
DedupStepByRecord(st, ch) ==
    IF ch \notin st.seen_urls
    THEN [seen_urls |-> st.seen_urls \cup {ch},
          unique_channels |-> Append(st.unique_channels, ch)]
    ELSE st

\* One iteration of the deduplication loop on the Record ch.
DedupStep(st, ch) ==
    IF ch["url"] \notin st.seen_urls
    THEN [seen_urls |-> st.seen_urls \cup {ch["url"]},
          unique_channels |-> Append(st.unique_channels, ch)]
    ELSE st

MainInit ==
    /\ ParseIdle
    /\ ProbeIdle
    /\ source_idx = 1
    /\ all_channels = <<>>
    /\ seen_urls = {}
    /\ unique_channels = <<>>
    /\ dedup_idx = 1
    /\ fetch_log = <<>>
    /\ mpc = "fetch"
    /\ futures = <<>>
    /\ num_threads = 0
    /\ collected = <<>>
    /\ active_channels = <<>>
    /\ completed = 0
    /\ errors = <<>>
    /\ exported = <<>>

\* for url in source_urls: all_channels.extend(fetch_source(url)), the
\* request ending in one of the ways of O.
FetchFrom(O) ==
    /\ mpc = "fetch"
    /\ source_idx <= Len(source_urls)
    /\ \E o \in O :
          /\ all_channels' = all_channels \o FetchResult(source_urls[source_idx], o)
          /\ fetch_log' = Append(fetch_log, o)
    /\ source_idx' = source_idx + 1
    /\ UNCHANGED <<seen_urls, unique_channels, dedup_idx, mpc, pvars, cvars, vvars>>

Fetch == FetchFrom(FetchOutcomes)

\* seen_urls = set(); unique_channels = []
DedupStart ==
    /\ mpc = "fetch"
    /\ source_idx > Len(source_urls)
    /\ seen_urls' = {}
    /\ unique_channels' = <<>>
    /\ dedup_idx' = 1
    /\ mpc' = "dedup"
    /\ UNCHANGED <<source_idx, all_channels, fetch_log, pvars, cvars, vvars>>

\* for ch in all_channels: ...
Dedup ==
    /\ mpc = "dedup"
    /\ dedup_idx <= Len(all_channels)
    /\ LET st == DedupStep([seen_urls |-> seen_urls,
                            unique_channels |-> unique_channels],
                           all_channels[dedup_idx])
       IN  /\ seen_urls' = st.seen_urls
           /\ unique_channels' = st.unique_channels
    /\ dedup_idx' = dedup_idx + 1
    /\ UNCHANGED <<source_idx, all_channels, fetch_log, mpc, pvars, cvars, vvars>>

DedupEnd ==
    /\ mpc = "dedup"
    /\ dedup_idx > Len(all_channels)
    /\ mpc' = "deduped"
    /\ UNCHANGED <<source_idx, all_channels, seen_urls, unique_channels, dedup_idx,
                   fetch_log, pvars, cvars, vvars>>

MainNext == Fetch \/ DedupStart \/ Dedup \/ DedupEnd

SpecDedup == MainInit /\ [][MainNext]_vars

(***************************************************************************)
(* Properties of the deduplication.                                        *)
(***************************************************************************)
\* The Records taken so far whose url no earlier Record carries.
FirstOccurrences ==
    {k \in 1..(dedup_idx - 1) :
        \A j \in 1..(k - 1) : all_channels[j]["url"] # all_channels[k]["url"]}

\* C1: at every point of the deduplication loop, and so at its end, the
\* output is the Records taken so far that are the first to carry their url,
\* in input order: one Record per distinct url, urls compared as they are.
C1_FirstOccurrenceKept ==
    mpc \in {"dedup", "deduped"} =>
        LET F == FirstOccurrences
        IN  /\ Len(unique_channels) = Cardinality(F)
            /\ \A n \in 1..Len(unique_channels) :
                  \E k \in F :
                      /\ Cardinality({m \in F : m <= k}) = n
                      /\ unique_channels[n] = all_channels[k]
            /\ \A m, n \in 1..Len(unique_channels) :
                  m # n => unique_channels[m]["url"] # unique_channels[n]["url"]
            /\ {unique_channels[n]["url"] : n \in 1..Len(unique_channels)}
                  = {all_channels[k]["url"] : k \in 1..(dedup_idx - 1)}

\* C1 witness: the deduplication has ended on three Records, the third with
\* the url of the first but another name, the second with a url that differs
\* from it by a trailing slash; the first two are kept.
C1_Witness ==
    /\ mpc = "deduped"
    /\ Len(all_channels) = 3
    /\ all_channels[3]["url"] = all_channels[1]["url"]
    /\ all_channels[3]["name"] # all_channels[1]["name"]
    /\ all_channels[2]["url"] = all_channels[1]["url"] \o <<"/">>
    /\ unique_channels = <<all_channels[1], all_channels[2]>>

(***************************************************************************)
(* Properties of the loop over the sources.                                *)
(***************************************************************************)
\* The request ended in a way that fetch_source reports as an error.
Failed(o) == o.kind = "exception" \/ RaisesForStatus(o.status)

\* What the loop collects from the sources k..n that did not fail, as if
\* the others were not in the list.
RECURSIVE CollectedFrom(_, _)
CollectedFrom(k, n) ==
    IF k > n THEN <<>>
    ELSE (IF Failed(fetch_log[k]) THEN <<>>
          ELSE ParseM3U(fetch_log[k].text, source_urls[k]))
         \o CollectedFrom(k + 1, n)

\* C14: in the loop over the sources and when the deduplication has ended,
\* the Records collected are those of the sources that did not fail, in the
\* order of the list, a source that failed adding none; the loop takes every
\* source, and the deduplication starts only after the last one.
C14_FailedSourceContributesNothing ==
    /\ Len(fetch_log) = source_idx - 1
    /\ mpc # "fetch" => Len(fetch_log) = Len(source_urls)
    /\ mpc \in {"fetch", "deduped"} => all_channels = CollectedFrom(1, Len(fetch_log))

\* C14 witness: the second source answers 404 with a body that reads as a
\* playlist, the first and the third serve Records; the run has reached the
\* end of the deduplication with the Records of the first and the third.
C14_Witness ==
    /\ mpc = "deduped"
    /\ Len(fetch_log) = 3
    /\ ~Failed(fetch_log[1]) /\ ~Failed(fetch_log[3])
    /\ fetch_log[2].kind = "response" /\ fetch_log[2].status = 404
    /\ ParseM3U(fetch_log[2].text, source_urls[2]) # <<>>
    /\ ParseM3U(fetch_log[1].text, source_urls[1]) # <<>>
    /\ ParseM3U(fetch_log[3].text, source_urls[3]) # <<>>
    /\ all_channels = ParseM3U(fetch_log[1].text, source_urls[1])
                         \o ParseM3U(fetch_log[3].text, source_urls[3])

\* C14 witness of the exception: the request of the first source raises and
\* the other two sources serve Records.
C14_ExceptionThenRecords ==
    /\ mpc = "deduped"
    /\ fetch_log[1].kind = "exception"
    /\ Len(all_channels) >= 2

(***************************************************************************)
(* main, the verification and the exports.  The executor keeps the futures *)
(* in a queue; a worker thread takes the oldest pending one, runs          *)
(* check_link_active and settles the future with what the call returned or *)
(* raised.  The main thread submits, then takes the settled futures as     *)
(* as_completed yields them, then leaves the with block and exports.       *)
(***************************************************************************)
UrlC == <<"http://", "c">>

\* The documents served in runs of the whole of main.
PipelineDocuments ==
    {<<HdrUrlTvg, InfName, UrlA, InfBare, UrlB>>, <<InfGroup, UrlC, InfName, UrlA>>}

PipelineOutcomes ==
    {[kind |-> "response", status |-> 200, text |-> doc] : doc \in PipelineDocuments}
        \cup {[kind |-> "exception", class |-> "ConnectionError"]}

\* The ways the requests of a probe end in these runs.
PoolOutcomes ==
    {[kind |-> "response", status |-> 200], [kind |-> "response", status |-> 404],
     [kind |-> "exception", class |-> "ReadTimeout"],
     [kind |-> "exception", class |-> "ConnectionError"],
     [kind |-> "exception", class |-> "UnicodeError"]}

\* check_link_active(url) when requests.head ends as ho and requests.get, if
\* it is called, as go.
CheckLinkActive(ho, go) ==
    IF AfterHead(ho).pc = "get" THEN AfterGet(go) ELSE AfterHead(ho)

exporters ==
    <<"export_to_m3u", "export_to_json", "export_to_txt", "export_to_custom_json">>

Range(s) == {s[k] : k \in 1..Len(s)}

InState(states) == {n \in 1..Len(futures) : futures[n].state \in states}

Settled == InState({"returned", "raised"})

\* Mutant of SpawnAllowed: a thread for every submission.
SpawnAllowedUnbounded(n) == TRUE

\* The executor starts another thread only below max_workers.
SpawnAllowed(n) == n < max_workers

\* The thread counts after a submission: the executor starts a thread unless
\* the pool is full; it may start none when a thread is free for the future.
ThreadsAfterSubmit ==
    LET waiting == Cardinality(InState({"pending", "running"}))
    IN  IF ~SpawnAllowed(num_threads) THEN {num_threads}
        ELSE IF num_threads > waiting THEN {num_threads, num_threads + 1}
        ELSE {num_threads + 1}

\* Mutant of IsActive: every result that is returned counts.
IsActiveAlways(r) == TRUE

\* if is_active:
IsActive(r) == r = Some(TRUE)

\* Mutant of CollectStep: the exception of future.result() leaves main.
CollectStepPropagates(st, ch, f) ==
    IF f.state = "raised"
    THEN [st EXCEPT !.mpc = "crashed"]
    ELSE [st EXCEPT !.active_channels = IF IsActive(f.result) THEN Append(@, ch) ELSE @,
                    !.completed = @ + 1]

\* The body of the as_completed loop on the settled future f of Record ch.
CollectStep(st, ch, f) ==
    IF f.state = "raised"
    THEN [st EXCEPT !.errors = Append(@, ch)]
    ELSE [st EXCEPT !.active_channels = IF IsActive(f.result) THEN Append(@, ch) ELSE @,
                    !.completed = @ + 1]

\* Mutant of AsCompletedExhausted: the loop ends at the first future taken.
AsCompletedFirstOnly == collected # <<>> \/ futures = <<>>

\* as_completed has yielded every future.
AsCompletedExhausted == \A n \in 1..Len(futures) : n \in Range(collected)

\* Mutant of VerifyStart: the verification does not wait for the end of the
\* deduplication loop.
VerifyStartEarly ==
    /\ mpc \in {"dedup", "deduped"}
    /\ mpc' = "submit"
    /\ active_channels' = <<>>
    /\ futures' = <<>>
    /\ num_threads' = 0
    /\ UNCHANGED <<svars, collected, completed, errors, exported, pvars, cvars>>

\* active_channels = []; with ThreadPoolExecutor(max_workers=50) as executor
VerifyStart ==
    /\ mpc = "deduped"
    /\ mpc' = "submit"
    /\ active_channels' = <<>>
    /\ futures' = <<>>
    /\ num_threads' = 0
    /\ UNCHANGED <<svars, collected, completed, errors, exported, pvars, cvars>>

\* executor.submit(check_link_active, ch['url']) for the next Record
Submit ==
    /\ mpc = "submit"
    /\ Len(futures) < Len(unique_channels)
    /\ futures' = Append(futures, [url |-> unique_channels[Len(futures) + 1]["url"],
                                   state |-> "pending", result |-> None, runs |-> 0])
    /\ num_threads' \in ThreadsAfterSubmit
    /\ UNCHANGED <<svars, mpc, collected, active_channels, completed, errors, exported,
                   pvars, cvars>>

\* completed = 0, with every Record submitted
SubmitEnd ==
    /\ mpc = "submit"
    /\ Len(futures) = Len(unique_channels)
    /\ completed' = 0
    /\ mpc' = "collect"
    /\ UNCHANGED <<svars, futures, num_threads, collected, active_channels, errors,
                   exported, pvars, cvars>>

\* A worker thread that runs no call takes the oldest pending future and
\* enters check_link_active.
WorkerStart ==
    /\ InState({"pending"}) # {}
    /\ Cardinality(InState({"running"})) < num_threads
    /\ LET n == SetMin(InState({"pending"}))
       IN  futures' = [futures EXCEPT ![n].state = "running", ![n].runs = @ + 1]
    /\ UNCHANGED <<mvars, num_threads, collected, active_channels, completed, errors,
                   exported, pvars, cvars>>

\* check_link_active returns or raises in a worker thread, and the thread
\* settles the future.
WorkerFinish ==
    /\ \E n \in InState({"running"}) : \E ho, go \in PoolOutcomes :
          futures' = [futures EXCEPT ![n].state = CheckLinkActive(ho, go).pc,
                                     ![n].result = CheckLinkActive(ho, go).result]
    /\ UNCHANGED <<mvars, num_threads, collected, active_channels, completed, errors,
                   exported, pvars, cvars>>

\* One iteration of for future in as_completed(future_to_channel)
Collect ==
    /\ mpc = "collect"
    /\ ~AsCompletedExhausted
    /\ \E n \in Settled \ Range(collected) :
          /\ collected' = Append(collected, n)
          /\ LET st == CollectStep([active_channels |-> active_channels,
                                    completed |-> completed,
                                    errors |-> errors,
                                    mpc |-> mpc],
                                   unique_channels[n], futures[n])
             IN  /\ active_channels' = st.active_channels
                 /\ completed' = st.completed
                 /\ errors' = st.errors
                 /\ mpc' = st.mpc
    /\ UNCHANGED <<svars, futures, num_threads, exported, pvars, cvars>>

\* The loop ends and the with block is left: the executor is shut down, which
\* waits for every future.
VerifyEnd ==
    /\ mpc = "collect"
    /\ AsCompletedExhausted
    /\ InState({"pending", "running"}) = {}
    /\ mpc' = "verified"
    /\ UNCHANGED <<svars, vvars, pvars, cvars>>

\* The next exporter is called with active_channels.
Export ==
    /\ mpc = "verified"
    /\ Len(exported) < Len(exporters)
    /\ exported' = Append(exported, [exporter |-> exporters[Len(exported) + 1],
                                     channels |-> active_channels])
    /\ UNCHANGED <<mvars, futures, num_threads, collected, active_channels, completed,
                   errors, pvars, cvars>>

\* main returns.
ExportEnd ==
    /\ mpc = "verified"
    /\ Len(exported) = Len(exporters)
    /\ mpc' = "done"
    /\ UNCHANGED <<svars, vvars, pvars, cvars>>

FetchSome == FetchFrom(PipelineOutcomes)

MainSteps ==
    \/ FetchSome
    \/ DedupStart
    \/ Dedup
    \/ DedupEnd
    \/ VerifyStart
    \/ Submit
    \/ SubmitEnd
    \/ Collect
    \/ VerifyEnd
    \/ Export
    \/ ExportEnd

WorkerSteps == WorkerStart \/ WorkerFinish

Next == MainSteps \/ WorkerSteps

Init == MainInit

Spec == Init /\ [][Next]_vars

\* The main thread goes on while it can, and so do the worker threads: a
\* call that has started ends.
FairSpec == Spec /\ WF_vars(MainSteps) /\ WF_vars(WorkerSteps)

(***************************************************************************)
(* Properties of the verification and of main as a whole.                  *)
(***************************************************************************)
\* C11: the calls of check_link_active that have started and not ended are
\* never more than max_workers, however many Records there are, and the
\* executor never has more threads than that.
C11_InFlightBounded ==
    /\ Cardinality(InState({"running"})) <= max_workers
    /\ num_threads <= max_workers

\* C11 witness: more Records than max_workers; max_workers calls are in
\* flight and a future waits for a thread.
C11_Witness ==
    /\ Len(unique_channels) > max_workers
    /\ Cardinality(InState({"running"})) = max_workers
    /\ InState({"pending"}) # {}

\* How many times as_completed has yielded the future n.
TimesCollected(n) == Cardinality({k \in 1..Len(collected) : collected[k] = n})

VerificationOver == mpc \in {"verified", "done"}

\* C12: with the worker threads and the main thread going on, the
\* verification ends; and when it has ended there is a future for every
\* deduplicated Record, each call was started once and has returned or
\* raised, and each future was taken once by the loop.
C12_VerificationCompletes ==
    /\ <>VerificationOver
    /\ [](VerificationOver =>
             /\ Len(futures) = Len(unique_channels)
             /\ \A n \in 1..Len(futures) :
                   /\ futures[n].state \in {"returned", "raised"}
                   /\ futures[n].runs = 1
                   /\ TimesCollected(n) = 1)
    /\ [](\A n \in 1..Len(futures) : futures[n].runs <= 1 /\ TimesCollected(n) <= 1)

\* C12 witness: the verification has ended on three Records, the last
\* submitted being the first taken by the loop.
C12_Witness ==
    /\ mpc = "verified"
    /\ Len(unique_channels) = 3
    /\ Len(collected) = 3
    /\ collected[1] = 3
    /\ \A n \in 1..3 : futures[n].runs = 1

\* C13: a future whose call raised is taken by the loop like any other: main
\* goes on, the Record of the future is reported and is not among the active
\* ones, and the Records of the other futures taken are among them exactly
\* when their call returned True; at the end every future has been taken.
C13_RaisedProbeInactive ==
    /\ mpc # "crashed"
    /\ \A n \in Range(collected) :
          IF futures[n].state = "raised"
          THEN /\ unique_channels[n] \notin Range(active_channels)
               /\ unique_channels[n] \in Range(errors)
          ELSE /\ unique_channels[n] \in Range(active_channels)
                     <=> futures[n].result = Some(TRUE)
               /\ unique_channels[n] \notin Range(errors)
    /\ Len(errors) + completed = Len(collected)
    /\ VerificationOver => Range(collected) = 1..Len(unique_channels)

\* C13 witness: main has returned; the first future taken had raised, one
\* taken later had returned True and one had returned False.
C13_Witness ==
    /\ mpc = "done"
    /\ Len(collected) = 3
    /\ futures[collected[1]].state = "raised"
    /\ futures[collected[2]].result = Some(TRUE)
    /\ futures[collected[3]].result = Some(FALSE)
    /\ active_channels = <<unique_channels[collected[2]]>>

\* The Records whose call returned True.
ActiveRecords ==
    {unique_channels[n] : n \in {k \in 1..Len(futures) : futures[k].result = Some(TRUE)}}

\* C16: every exporter is given the same list, which holds each Record whose
\* call returned True once and no other Record, in whatever order the calls
\* ended and were taken.
C16_ExportedAreTheActive ==
    \A e \in 1..Len(exported) :
        /\ exported[e].exporter = exporters[e]
        /\ Range(exported[e].channels) = ActiveRecords
        /\ Len(exported[e].channels) = Cardinality(ActiveRecords)
        /\ exported[e].channels = exported[1].channels

\* C16 witness: the four exporters have been called with two Records, taken
\* in the order opposite to their submission, a third Record being inactive.
C16_Witness ==
    /\ mpc = "done"
    /\ Len(exported) = 4
    /\ Len(unique_channels) = 3
    /\ Len(exported[4].channels) = 2
    /\ \E a, b \in 1..3 :
          /\ a < b
          /\ exported[4].channels = <<unique_channels[b], unique_channels[a]>>
    /\ \E n \in 1..3 : futures[n].result = Some(FALSE)

\* C19: while a source is still to be fetched or the deduplication loop is
\* still to end, nothing has been submitted to the executor and no call has
\* started; and when an exporter has been called, every Record was
\* submitted, every call has ended and every future was taken by the loop.
C19_StagesInOrder ==
    /\ (mpc \in {"fetch", "dedup", "deduped"} \/ source_idx <= Len(source_urls)
           \/ dedup_idx <= Len(all_channels))
          => futures = <<>> /\ num_threads = 0 /\ collected = <<>> /\ exported = <<>>
    /\ mpc \in {"fetch", "dedup"} => active_channels = <<>>
    /\ mpc = "submit" => collected = <<>>
    /\ mpc \in {"submit", "collect"} => exported = <<>>
    /\ exported # <<>> =>
          /\ Len(futures) = Len(unique_channels)
          /\ Settled = 1..Len(futures)
          /\ Range(collected) = 1..Len(futures)

\* C19 witness: a call is in flight, with the three sources fetched and the
\* deduplication loop at its end, while another future is still pending and
\* no exporter has been called.
C19_Witness ==
    /\ InState({"running"}) # {}
    /\ InState({"pending"}) # {}
    /\ source_idx > Len(source_urls)
    /\ dedup_idx > Len(all_channels)
    /\ Len(all_channels) > Len(unique_channels)
    /\ exported = <<>>

\* C19 witness of the exports: an exporter has been called after three
\* futures were taken.
C19_ExportAfterCollection ==
    /\ exported # <<>>
    /\ Len(collected) = 3

====
